---- MODULE Spec2Model ----
(***************************************************************************)
(* Model of examples/recorder-crx/src/background.ts: the background        *)
(* service of the recorder extension.  JavaScript runs the file on one     *)
(* event loop; every action below is one synchronous run of code between   *)
(* two suspension points (an await, or the delivery of an event).          *)
(***************************************************************************)
EXTENDS Integers, Sequences, FiniteSets, TLC

\* ---------------------------------------------------------------- bounds
MaxTabs == 2          \* tab identifiers 1..MaxTabs; 0 is a tab without id
MaxAttach == 2        \* attach(tab, mode) invocations
MaxSave == 2          \* doSave invocations
MaxTime == 2          \* Date.now() ranges over 1..MaxTime
MaxHandlers == 1      \* modechanged handlers suspended on their first await
MaxCookies == 2       \* cookies of the storage state
MaxUrls == 2          \* distinct URLs open in the pages and frames

\* ------------------------------------------------------------- constants
NoTab == 0
NoMode == "undefined"     \* an omitted mode argument, an unset variable

stoppedModes == {"none", "standby", "detached"}
recordingModes ==
  {"recording", "assertingText", "assertingVisibility", "assertingValue",
   "assertingSnapshot"}

\* the values of Mode the engine reports ('detached' is CrxMode only)
Mode == recordingModes \cup {"none", "standby", "inspecting"}

\* the modes the engine is made to report below: one of each kind, and two
\* of the recording family
ModeInputs == {"none", "standby", "inspecting", "recording", "assertingText"}

Tabs == 1 .. MaxTabs
AttachIds == 1 .. MaxAttach
SaveIds == 1 .. MaxSave
\* each getCrxApp caller makes at most one crx.start() call
PromiseIds == 1 .. (MaxAttach + MaxSave)

\* the modes the listeners pass to attach: none (click, context menu),
\* 'inspecting' and 'recording' (commands)
AttachModes == {NoMode, "inspecting", "recording"}

\* a key that is not in chrome.storage.sync, a variable that is not set
NoValue == "undefined"
\* the test id attribute of playwright.selectors before anyone sets it
DefaultTestIdAttribute == "data-testid"
\* the values the user gives the two settings
TestIdNames == {"data-qa", "data-test"}
Languages == {"python"}

VARIABLES
  crxAppPromise,      \* 0: undefined, else the id of the memoized promise
  promise,            \* promise id -> "none" | "pending" | "resolved" | "rejected"
  attachedTabIds,
  currentMode,
  sidepanel,
  lastModeChangeTime, \* 0: undefined
  tabAttachTimes,     \* the tabs that are keys of the map
  indicator,          \* per tab: the title and badge chrome.action was last asked for
  actionEnabled,      \* chrome.action.enable() / disable()
  recorderMode,       \* crxApp.recorder.mode
  recorderHidden,     \* crxApp.recorder.isHidden()
  att,                \* the attach invocations
  sav,                \* the doSave invocations
  modeHandlers,       \* the modechanged handlers suspended on their await: the
                      \* mode of the event, and whether the engine was in a
                      \* recording mode before it (observation only)
  now,                \* Date.now()
  last,               \* what the last step did (observation only)
  language,
  testIdAttribute,    \* the attribute playwright.selectors was last given
  storageSync,        \* chrome.storage.sync: testIdAttributeName, targetLanguage
  settingsRead,       \* promise id -> what getCrxApp read before crx.start()
  storageState        \* saveStorageState: what it read and what it saves

vars ==
  <<crxAppPromise, promise, attachedTabIds, currentMode, sidepanel,
    lastModeChangeTime, tabAttachTimes, indicator, actionEnabled,
    recorderMode, recorderHidden, att, sav, modeHandlers, now, last,
    language, testIdAttribute, storageSync, settingsRead, storageState>>

sessionVars == <<crxAppPromise, promise>>
trackerVars == <<attachedTabIds, currentMode, lastModeChangeTime, tabAttachTimes, indicator>>
engineVars == <<recorderMode, recorderHidden>>
settingsVars == <<language, testIdAttribute, storageSync, settingsRead>>

\* ------------------------------------------------------------ initial state
DefaultIndicator == [title |-> "default", badge |-> ""]

IdleAttach ==
  [pc |-> "idle", tab |-> NoTab, mode |-> NoMode, awaits |-> 0, app |-> 0,
   opened |-> FALSE, disabled |-> FALSE, enabled |-> FALSE, window |-> "",
   show |-> 0, attach |-> 0, setMode |-> 0, newPage |-> 0, failedStep |-> "",
   language |-> NoValue, languageAtCall |-> NoValue]

\* modeBefore: the recorder mode when doSave was called (observation only)
IdleSave ==
  [pc |-> "idle", awaits |-> 0, app |-> 0, currMode |-> NoMode,
   tab |-> "none", clicked |-> FALSE, dialog |-> "none", restored |-> FALSE,
   modeBefore |-> NoMode]

NoLast ==
  [op |-> "", id |-> 0, tab |-> NoTab, mode |-> NoMode, recordingBefore |-> FALSE,
   emitted |-> <<>>, duration |-> 0]

\* nothing is read or saved before saveStorageState runs
NoStorageState ==
  [allCookies |-> <<>>, parsedURLs |-> <<>>, origins |-> <<>>, filtered |-> FALSE,
   body |-> [cookies |-> <<>>, origins |-> <<>>]]

\* chrome.storage.sync of a fresh installation
NothingPersisted == [testIdAttributeName |-> NoValue, targetLanguage |-> NoValue]

\* chrome.storage.sync as an earlier run of the extension may have left it
PersistedSettings ==
  [testIdAttributeName : TestIdNames \cup {NoValue},
   targetLanguage : Languages \cup {NoValue}]

\* the module variables after the file has been evaluated (line 88-95)
InitBase ==
  /\ crxAppPromise = 0
  /\ promise = [p \in PromiseIds |-> "none"]
  /\ attachedTabIds = {}
  /\ currentMode = NoMode
  /\ sidepanel = TRUE
  /\ lastModeChangeTime = 0
  /\ tabAttachTimes = {}
  /\ indicator = [t \in Tabs |-> DefaultIndicator]
  /\ actionEnabled = TRUE
  /\ recorderMode = "none"
  /\ recorderHidden = TRUE
  /\ att = [i \in AttachIds |-> IdleAttach]
  /\ sav = [s \in SaveIds |-> IdleSave]
  /\ modeHandlers = <<>>
  /\ now = 1
  /\ last = NoLast
  /\ language = NoValue
  /\ testIdAttribute = DefaultTestIdAttribute
  /\ settingsRead = [p \in PromiseIds |-> NothingPersisted]

\* a fresh installation
Init ==
  /\ InitBase
  /\ storageSync = NothingPersisted
  /\ storageState = NoStorageState

\* the background process starts with settings persisted earlier
InitPersisted ==
  /\ InitBase
  /\ storageSync \in PersistedSettings
  /\ storageState = NoStorageState

\* ------------------------------------------------- Toolbar Indicator Updater
\* faulty variant: the derived mode ignores whether the tab is attached
ResolveModeIgnoresAttached(tabId, mode) ==
  IF mode = NoMode THEN currentMode ELSE mode

\* changeAction, line 98-102: the mode the indicator is drawn for
ResolveMode(tabId, mode) ==
  IF mode = NoMode
    THEN (IF tabId \in attachedTabIds THEN currentMode ELSE "detached")
    ELSE mode

\* faulty variant: 'detached' is stored like any other mode
StoreModeStoresDetached(cm, mode) ==
  IF mode = NoMode THEN cm ELSE mode

\* changeAction, line 98-102: the value of currentMode after the call
StoreMode(cm, mode) ==
  IF mode = NoMode THEN cm
  ELSE IF mode # "detached" THEN mode
  ELSE cm

\* faulty variant: the stopped branch titles every stopped mode "Record"
DrawIndicatorOneTitle(old, mode) ==
  IF mode = NoMode \/ mode \in stoppedModes
    THEN [old EXCEPT !.title = "Record", !.badge = ""]
  ELSE IF mode \in recordingModes
    THEN [title |-> "Recording", badge |-> "REC"]
    ELSE [title |-> "Inspecting", badge |-> "INS"]

\* changeAction, line 105-122: the title and the badge text chrome.action is
\* asked to show.  The badge colours of line 120-121 are fixed per badge
\* text (white on darkred with REC, white on dodgerblue with INS), nothing
\* reads them, and they are not recorded.
DrawIndicator(old, mode) ==
  IF mode = NoMode \/ mode \in stoppedModes
    THEN [old EXCEPT !.title = IF mode = "none" THEN "Stopped" ELSE "Record",
                     !.badge = ""]
  ELSE IF mode \in recordingModes
    THEN [title |-> "Recording", badge |-> "REC"]
    ELSE [title |-> "Inspecting", badge |-> "INS"]

\* changeAction(tabId, mode) for every tab of ts, in one synchronous run
\* (line 97-123); shown is what the tabs show when the calls are made
ChangeActionAll(shown, ts, mode) ==
  /\ currentMode' = IF ts = {} THEN currentMode ELSE StoreMode(currentMode, mode)
  /\ indicator' =
       [t \in Tabs |->
          IF t \in ts THEN DrawIndicator(shown[t], ResolveMode(t, mode))
          ELSE shown[t]]

\* -------------------------------------------------- Engine Session Manager
Started == {p \in PromiseIds : promise[p] # "none"}
Resolved == {p \in PromiseIds : promise[p] = "resolved"}
startCalls == Cardinality(Started)

\* getCrxApp up to its first await (line 130-131, 197): the pc and the
\* promise the caller waits for
GetCrxAppEnter ==
  IF crxAppPromise = 0 THEN [pc |-> "storage", awaits |-> 0]
  ELSE [pc |-> "session", awaits |-> crxAppPromise]

\* the promise id crx.start().then(...) gets
NextPromise == CHOOSE p \in PromiseIds : p \notin Started /\ \A q \in PromiseIds \ Started : p <= q

\* what an observed step did, for the properties below
Obs(op, id, tab, mode) ==
  [NoLast EXCEPT !.op = op, !.id = id, !.tab = tab, !.mode = mode]

\* line 188-189: setTestIdAttributeName is called when the name that was
\* read is falsy, and with that name
ApplyTestIdAttributeName(name) ==
  IF name = NoValue THEN name ELSE testIdAttribute

\* line 190-191
ApplyTargetLanguage(targetLanguage) ==
  IF language = NoValue /\ targetLanguage # NoValue THEN targetLanguage ELSE language

\* crx.start() settles (line 133-194).  When it resolves, the then-callback
\* registers the lifecycle listeners of the new application and the promise
\* resolves with that application; when it rejects, so does the promise.
StartSettles(p, ok) ==
  /\ promise[p] = "pending"
  /\ promise' = [promise EXCEPT ![p] = IF ok THEN "resolved" ELSE "rejected"]
  /\ testIdAttribute' =
       IF ok THEN ApplyTestIdAttributeName(settingsRead[p].testIdAttributeName)
       ELSE testIdAttribute
  /\ language' =
       IF ok THEN ApplyTargetLanguage(settingsRead[p].targetLanguage) ELSE language
  /\ last' = NoLast
  /\ UNCHANGED <<crxAppPromise, trackerVars, sidepanel, storageSync, settingsRead,
                 storageState, actionEnabled, engineVars, att, sav, modeHandlers, now>>

\* ------------------------------------------------------------- Attach Flow
\* faulty variant: the guard forgets the attached tabs
AttachIsNoOpOnlyNoTab(tab, mode) == tab = NoTab

\* the guard of attach, line 201
AttachIsNoOp(tab, mode) ==
  tab = NoTab \/ (tab \in attachedTabIds /\ mode = NoMode)

\* attach(tab, mode) from its call to its first await (line 201-211)
AttachCall(i, tab, mode) ==
  /\ att[i].pc = "idle"
  /\ \A j \in AttachIds : j < i => att[j].pc # "idle"
  /\ IF AttachIsNoOp(tab, mode)
       THEN /\ att' = [att EXCEPT ![i] = [@ EXCEPT !.pc = "done", !.tab = tab, !.mode = mode]]
            /\ UNCHANGED actionEnabled
       ELSE /\ att' = [att EXCEPT ![i] =
                  [@ EXCEPT !.pc = GetCrxAppEnter.pc, !.awaits = GetCrxAppEnter.awaits,
                            !.tab = tab, !.mode = mode,
                            !.opened = sidepanel, !.disabled = TRUE,
                            !.languageAtCall = language]]
            /\ actionEnabled' = FALSE
  /\ last' = NoLast
  /\ UNCHANGED <<sessionVars, trackerVars, sidepanel, settingsVars, storageState, engineVars, sav, modeHandlers, now>>

\* getCrxApp after chrome.storage.sync.get settled (line 131-133, 197): the
\* caller calls crx.start(), memoizes the promise and waits for it
AttachStorage(i, ok) ==
  /\ att[i].pc = "storage"
  /\ IF ok
       THEN /\ promise' = [promise EXCEPT ![NextPromise] = "pending"]
            /\ crxAppPromise' = NextPromise
            /\ att' = [att EXCEPT ![i] = [@ EXCEPT !.pc = "session", !.awaits = NextPromise]]
            /\ settingsRead' = [settingsRead EXCEPT ![NextPromise] = storageSync]
       ELSE /\ att' = [att EXCEPT ![i] = [@ EXCEPT !.pc = "failed", !.failedStep = "session"]]
            /\ UNCHANGED <<sessionVars, settingsRead>>
  /\ last' = NoLast
  /\ UNCHANGED <<trackerVars, sidepanel, language, testIdAttribute, storageSync, storageState, actionEnabled, engineVars, sav, modeHandlers, now>>

\* the first call of the try block (line 214-222): show when the recorder is
\* hidden, else attach
AttachTryEnter(r) ==
  IF recorderHidden
    THEN [r EXCEPT !.pc = "show", !.show = @ + 1, !.language = language,
                   !.window = IF sidepanel THEN "sidepanel" ELSE "popup"]
    ELSE [r EXCEPT !.pc = "attach", !.attach = @ + 1]

\* await getCrxApp() settles (line 211): a rejection leaves attach before
\* its try block
AttachSession(i) ==
  /\ att[i].pc = "session"
  /\ promise[att[i].awaits] \in {"resolved", "rejected"}
  /\ att' = [att EXCEPT ![i] =
       IF promise[att[i].awaits] = "resolved"
         THEN AttachTryEnter([@ EXCEPT !.app = att[i].awaits])
         ELSE [@ EXCEPT !.pc = "failed", !.failedStep = "session"]]
  /\ last' = NoLast
  /\ UNCHANGED <<sessionVars, trackerVars, sidepanel, settingsVars, storageState, actionEnabled, engineVars,
                 sav, modeHandlers, now>>

\* faulty variant: the catch block retries the attach instead of opening a page
AttachCatchRetries(r) == [r EXCEPT !.pc = "attach", !.attach = @ + 1]

\* the catch block (line 225-227)
AttachCatch(r) == [r EXCEPT !.pc = "newPage", !.newPage = @ + 1]

\* the finally block (line 228-230), then attach returns or rethrows
AttachFinally(r, pc) == [r EXCEPT !.pc = pc, !.enabled = TRUE]

\* await crxApp.recorder.show(...) settles (line 215-222)
AttachShow(i, ok) ==
  /\ att[i].pc = "show"
  /\ IF ok
       THEN /\ att' = [att EXCEPT ![i] = [@ EXCEPT !.pc = "attach", !.attach = @ + 1]]
            /\ recorderHidden' = FALSE
            /\ recorderMode' = IF att[i].mode = NoMode THEN "recording" ELSE att[i].mode
       ELSE /\ att' = [att EXCEPT ![i] = AttachCatch([@ EXCEPT !.failedStep = "show"])]
            /\ UNCHANGED engineVars
  /\ last' = NoLast
  /\ UNCHANGED <<sessionVars, trackerVars, sidepanel, settingsVars, storageState, actionEnabled, sav, modeHandlers, now>>

\* await crxApp.attach(tabId) settles (line 222-224, 229)
AttachAttach(i, ok) ==
  /\ att[i].pc = "attach"
  /\ IF ok
       THEN IF att[i].mode # NoMode
              THEN /\ att' = [att EXCEPT ![i] = [@ EXCEPT !.pc = "setMode", !.setMode = @ + 1]]
                   /\ UNCHANGED actionEnabled
              ELSE /\ att' = [att EXCEPT ![i] = AttachFinally(@, "done")]
                   /\ actionEnabled' = TRUE
       ELSE /\ att' = [att EXCEPT ![i] = AttachCatch([@ EXCEPT !.failedStep = "attach"])]
            /\ UNCHANGED actionEnabled
  /\ last' = NoLast
  /\ UNCHANGED <<sessionVars, trackerVars, sidepanel, settingsVars, storageState, engineVars, sav, modeHandlers, now>>

\* await crxApp.recorder.setMode(mode) settles (line 224, 229)
AttachSetMode(i, ok) ==
  /\ att[i].pc = "setMode"
  /\ IF ok
       THEN /\ att' = [att EXCEPT ![i] = AttachFinally(@, "done")]
            /\ actionEnabled' = TRUE
            /\ recorderMode' = att[i].mode
       ELSE /\ att' = [att EXCEPT ![i] = AttachCatch([@ EXCEPT !.failedStep = "setMode"])]
            /\ UNCHANGED <<actionEnabled, recorderMode>>
  /\ last' = NoLast
  /\ UNCHANGED <<sessionVars, trackerVars, sidepanel, settingsVars, storageState, recorderHidden, sav, modeHandlers, now>>

\* await crxApp.newPage() settles (line 227-230): the finally block runs
\* whether it resolved or threw
AttachNewPage(i, ok) ==
  /\ att[i].pc = "newPage"
  /\ att' = [att EXCEPT ![i] = AttachFinally(@, IF ok THEN "done" ELSE "failed")]
  /\ actionEnabled' = TRUE
  /\ last' = NoLast
  /\ UNCHANGED <<sessionVars, trackerVars, sidepanel, settingsVars, storageState, engineVars, sav, modeHandlers, now>>

\* chrome.storage.sync.onChanged carrying testIdAttributeName (line 256-258)
TestIdChanged(name) ==
  /\ storageSync.testIdAttributeName # name
  /\ storageSync' = [storageSync EXCEPT !.testIdAttributeName = name]
  /\ testIdAttribute' = name
  /\ last' = NoLast
  /\ UNCHANGED <<sessionVars, trackerVars, sidepanel, language, settingsRead, storageState,
                 actionEnabled, engineVars, att, sav, modeHandlers, now>>

\* chrome.storage.sync.onChanged carrying targetLanguage (line 256, 259-260)
LanguageChanged(targetLanguage) ==
  /\ storageSync.targetLanguage # targetLanguage
  /\ storageSync' = [storageSync EXCEPT !.targetLanguage = targetLanguage]
  /\ language' = targetLanguage
  /\ last' = NoLast
  /\ UNCHANGED <<sessionVars, trackerVars, sidepanel, testIdAttribute, settingsRead,
                 storageState, actionEnabled, engineVars, att, sav, modeHandlers, now>>

\* chrome.storage.sync.onChanged carrying sidepanel (line 256-263); the
\* read of line 251-254 assigns the variable in the same way
SettingsChanged(value) ==
  /\ sidepanel # value
  /\ sidepanel' = value
  /\ last' = NoLast
  /\ UNCHANGED <<settingsVars, storageState, sessionVars, trackerVars, actionEnabled, engineVars, att, sav,
                 modeHandlers, now>>


\* ------------------------------------------------------ telemetry wrapper
\* analytics.capture (line 54-74): the event is forwarded, or posthog throws
\* and the wrapper rethrows
Capture(ok, eventName) == IF ok THEN <<eventName>> ELSE <<>>

\* ------------------------------------------------------- engine lifecycle
\* the listeners exist once a crx.start() has resolved (line 133-187)
ListenersRegistered == Resolved # {}

\* 'attached' listener (line 164-177)
Attached(tabId, ok) ==
  /\ ListenersRegistered
  /\ tabId \notin attachedTabIds
  /\ attachedTabIds' = attachedTabIds \cup {tabId}
  /\ currentMode' = StoreMode(currentMode, recorderMode)
  /\ indicator' = [indicator EXCEPT ![tabId] = DrawIndicator(@, recorderMode)]
  /\ last' = [Obs("attached", 0, tabId, recorderMode) EXCEPT
                !.emitted = Capture(ok, "recorder_attached")]
  /\ UNCHANGED <<sessionVars, lastModeChangeTime, tabAttachTimes, sidepanel, settingsVars, storageState, actionEnabled,
                 engineVars, att, sav, modeHandlers, now>>

\* faulty variant: the capture is made before the tab is removed, so that a
\* capture that throws leaves the tab attached
DetachedCaptureFirst(tabId, ok) ==
  /\ ListenersRegistered
  /\ tabId \in attachedTabIds
  /\ IF ok
       THEN /\ attachedTabIds' = attachedTabIds \ {tabId}
            /\ indicator' = [indicator EXCEPT ![tabId] = DrawIndicator(@, "detached")]
            /\ tabAttachTimes' = tabAttachTimes \ {tabId}
       ELSE UNCHANGED <<attachedTabIds, indicator, tabAttachTimes>>
  /\ currentMode' = StoreMode(currentMode, "detached")
  /\ last' = [Obs("detached", 0, tabId, "detached") EXCEPT
                !.emitted = Capture(ok, "recorder_detached")]
  /\ UNCHANGED <<sessionVars, lastModeChangeTime, sidepanel, settingsVars, storageState, actionEnabled,
                 engineVars, att, sav, modeHandlers, now>>

\* 'detached' listener (line 178-187): tabAttachTimes.delete is skipped when
\* the capture before it throws
Detached(tabId, ok) ==
  /\ ListenersRegistered
  /\ tabId \in attachedTabIds
  /\ attachedTabIds' = attachedTabIds \ {tabId}
  /\ currentMode' = StoreMode(currentMode, "detached")
  /\ indicator' = [indicator EXCEPT ![tabId] = DrawIndicator(@, "detached")]
  /\ tabAttachTimes' = IF ok THEN tabAttachTimes \ {tabId} ELSE tabAttachTimes
  /\ last' = [Obs("detached", 0, tabId, "detached") EXCEPT
                !.emitted = Capture(ok, "recorder_detached")]
  /\ UNCHANGED <<sessionVars, lastModeChangeTime, sidepanel, settingsVars, storageState, actionEnabled,
                 engineVars, att, sav, modeHandlers, now>>

\* 'modechanged' listener up to its await (line 137-138): the synchronous
\* part of changeAction for every attached tab
ModeChanged(mode) ==
  /\ ListenersRegistered
  /\ Len(modeHandlers) < MaxHandlers
  /\ recorderMode' = mode
  /\ ChangeActionAll(indicator, attachedTabIds, mode)
  /\ modeHandlers' = Append(modeHandlers,
       [mode |-> mode, recordingBefore |-> recorderMode \in recordingModes])
  /\ last' = Obs("modechanged", 0, NoTab, mode)
  /\ UNCHANGED <<sessionVars, attachedTabIds, lastModeChangeTime, tabAttachTimes, sidepanel, settingsVars, storageState,
                 actionEnabled, recorderHidden, att, sav, now>>

\* line 146-147, read after the await
wasRecording == currentMode \in recordingModes
isRecording(mode) == mode \in recordingModes

\* line 142, 157: Date.now() - (lastModeChangeTime || Date.now())
SinceLastModeChange ==
  now - (IF lastModeChangeTime # 0 THEN lastModeChangeTime ELSE now)

\* the second capture of the handler (line 149-160), if any
RecordingEvent(mode) ==
  IF ~wasRecording /\ isRecording(mode) THEN "recording_started"
  ELSE IF wasRecording /\ ~isRecording(mode) THEN "recording_stopped"
  ELSE ""

\* 'modechanged' listener after its await (line 139-162); a capture that
\* throws ends the handler
ModeChangedResume(k, ok1, ok2) ==
  /\ k \in 1 .. Len(modeHandlers)
  /\ LET h == modeHandlers[k]
         ev == RecordingEvent(h.mode)
     IN /\ (~ok1 \/ ev = "") => ok2
        /\ lastModeChangeTime' =
             IF ok1 /\ ok2 THEN now ELSE lastModeChangeTime
        /\ last' =
             [NoLast EXCEPT !.op = "modechangedDone", !.mode = h.mode,
                !.recordingBefore = h.recordingBefore,
                !.emitted = Capture(ok1, "recorder_mode_changed") \o
                            (IF ok1 /\ ev # "" THEN Capture(ok2, ev) ELSE <<>>),
                !.duration = SinceLastModeChange]
  /\ modeHandlers' = [j \in 1 .. (Len(modeHandlers) - 1) |->
                        IF j < k THEN modeHandlers[j] ELSE modeHandlers[j + 1]]
  /\ UNCHANGED <<sessionVars, attachedTabIds, currentMode, tabAttachTimes, indicator,
                 sidepanel, settingsVars, storageState, actionEnabled, engineVars, att, sav, now>>

\* 'hide' listener (line 134-136): the recorder window was closed
RecorderHide ==
  /\ ListenersRegistered
  /\ ~recorderHidden
  /\ recorderHidden' = TRUE
  /\ last' = NoLast
  /\ UNCHANGED <<sessionVars, trackerVars, sidepanel, settingsVars, storageState, actionEnabled, recorderMode,
                 att, sav, modeHandlers, now>>

\* chrome.tabs.onUpdated (line 125-127): changeAction(tabId) with no mode;
\* a navigation has reset what the tab shows
TabUpdated(tabId, navigated) ==
  /\ ChangeActionAll(
       IF navigated THEN [indicator EXCEPT ![tabId] = DefaultIndicator] ELSE indicator,
       {tabId}, NoMode)
  /\ last' = Obs("updated", 0, tabId, NoMode)
  /\ UNCHANGED <<sessionVars, attachedTabIds, lastModeChangeTime, tabAttachTimes, sidepanel, settingsVars, storageState,
                 actionEnabled, engineVars, att, sav, modeHandlers, now>>

\* time passes
Tick ==
  /\ now < MaxTime
  /\ now' = now + 1
  /\ last' = NoLast
  /\ UNCHANGED <<sessionVars, trackerVars, sidepanel, settingsVars, storageState, actionEnabled, engineVars,
                 att, sav, modeHandlers>>


\* --------------------------------------------------------------- Save Flow
\* faulty variant: the mode is restored to the mode the save paused to
RestoreModePaused(r) == "none"

\* the argument of the last call of doSave (line 314)
RestoreMode(r) == r.currMode

\* doSave from its call to the first await of getCrxApp (line 274)
SaveCall(s) ==
  /\ sav[s].pc = "idle"
  /\ \A j \in SaveIds : j < s => sav[j].pc # "idle"
  /\ sav' = [sav EXCEPT ![s] =
       [@ EXCEPT !.pc = GetCrxAppEnter.pc, !.awaits = GetCrxAppEnter.awaits,
                 !.modeBefore = recorderMode]]
  /\ last' = NoLast
  /\ UNCHANGED <<sessionVars, trackerVars, sidepanel, settingsVars, storageState, actionEnabled, engineVars,
                 att, modeHandlers, now>>

\* getCrxApp after chrome.storage.sync.get settled (line 131-133, 197)
SaveStorage(s, ok) ==
  /\ sav[s].pc = "storage"
  /\ IF ok
       THEN /\ promise' = [promise EXCEPT ![NextPromise] = "pending"]
            /\ crxAppPromise' = NextPromise
            /\ sav' = [sav EXCEPT ![s] = [@ EXCEPT !.pc = "session", !.awaits = NextPromise]]
            /\ settingsRead' = [settingsRead EXCEPT ![NextPromise] = storageSync]
       ELSE /\ sav' = [sav EXCEPT ![s] = [@ EXCEPT !.pc = "failed"]]
            /\ UNCHANGED <<sessionVars, settingsRead>>
  /\ last' = NoLast
  /\ UNCHANGED <<trackerVars, sidepanel, language, testIdAttribute, storageSync, storageState, actionEnabled, engineVars, att, modeHandlers, now>>

\* await getCrxApp() settles; the mode is read and setMode('none') is
\* called (line 274-276)
SaveSession(s) ==
  /\ sav[s].pc = "session"
  /\ promise[sav[s].awaits] \in {"resolved", "rejected"}
  /\ sav' = [sav EXCEPT ![s] =
       IF promise[sav[s].awaits] = "resolved"
         THEN [@ EXCEPT !.pc = "pause", !.app = sav[s].awaits, !.currMode = recorderMode]
         ELSE [@ EXCEPT !.pc = "failed"]]
  /\ last' = NoLast
  /\ UNCHANGED <<sessionVars, trackerVars, sidepanel, settingsVars, storageState, actionEnabled, engineVars,
                 att, modeHandlers, now>>

\* await setMode('none') settles; chrome.tabs.create is called (line 276-280)
SavePause(s, ok) ==
  /\ sav[s].pc = "pause"
  /\ sav' = [sav EXCEPT ![s].pc = IF ok THEN "create" ELSE "failed"]
  /\ recorderMode' = IF ok THEN "none" ELSE recorderMode
  /\ last' = NoLast
  /\ UNCHANGED <<sessionVars, trackerVars, sidepanel, settingsVars, storageState, actionEnabled, recorderHidden,
                 att, modeHandlers, now>>

\* await chrome.tabs.create settles; the onRemoved listener of closePromise
\* is registered and crxApp.attach(saveTab.id) is called (line 280-291)
SaveCreate(s, ok) ==
  /\ sav[s].pc = "create"
  /\ sav' = [sav EXCEPT ![s] =
       IF ok THEN [@ EXCEPT !.pc = "attachTab", !.tab = "open"]
       ELSE [@ EXCEPT !.pc = "failed"]]
  /\ last' = NoLast
  /\ UNCHANGED <<sessionVars, trackerVars, sidepanel, settingsVars, storageState, actionEnabled, engineVars,
                 att, modeHandlers, now>>

\* an engine call on the helper tab settles: it cannot succeed on a tab
\* that is gone (line 291, 293-308, 310)
SaveTabStep(s, from, to, ok) ==
  /\ sav[s].pc = from
  /\ ok => sav[s].tab = "open"
  /\ sav' = [sav EXCEPT ![s] =
       IF ok THEN [@ EXCEPT !.pc = to, !.clicked = (to = "detach") \/ @]
       ELSE [@ EXCEPT !.pc = "failed"]]
  /\ last' = NoLast
  /\ UNCHANGED <<sessionVars, trackerVars, sidepanel, settingsVars, storageState, actionEnabled, engineVars,
                 att, modeHandlers, now>>

SaveAttachTab(s, ok) == SaveTabStep(s, "attachTab", "inject", ok)
SaveInject(s, ok) == SaveTabStep(s, "inject", "click", ok)
SaveClick(s, ok) == SaveTabStep(s, "click", "detach", ok)

\* await crxApp.detach(page) settles; doSave waits for closePromise
\* (line 311-312)
SaveDetach(s, ok) ==
  /\ sav[s].pc = "detach"
  /\ sav' = [sav EXCEPT ![s].pc = IF ok THEN "closed" ELSE "failed"]
  /\ last' = NoLast
  /\ UNCHANGED <<sessionVars, trackerVars, sidepanel, settingsVars, storageState, actionEnabled, engineVars,
                 att, modeHandlers, now>>

\* the click handler in the page (line 294-306): the save dialog completes
\* or is cancelled, and window.close() closes the helper tab
DialogSettles(s, outcome) ==
  /\ sav[s].clicked
  /\ sav[s].dialog = "none"
  /\ sav[s].tab = "open"
  /\ sav' = [sav EXCEPT ![s] = [@ EXCEPT !.dialog = outcome, !.tab = "closed"]]
  /\ last' = NoLast
  /\ UNCHANGED <<sessionVars, trackerVars, sidepanel, settingsVars, storageState, actionEnabled, engineVars,
                 att, modeHandlers, now>>

\* the user closes the helper tab without going through the dialog
\* (chrome.tabs.onRemoved, line 282-288)
HelperTabRemoved(s) ==
  /\ sav[s].tab = "open"
  /\ sav[s].dialog = "none"
  /\ sav' = [sav EXCEPT ![s].tab = "closed"]
  /\ last' = NoLast
  /\ UNCHANGED <<sessionVars, trackerVars, sidepanel, settingsVars, storageState, actionEnabled, engineVars,
                 att, modeHandlers, now>>

\* closePromise resolved; setMode(currMode) is called (line 312-314)
SaveClosed(s) ==
  /\ sav[s].pc = "closed"
  /\ sav[s].tab = "closed"
  /\ sav' = [sav EXCEPT ![s].pc = "restore"]
  /\ last' = NoLast
  /\ UNCHANGED <<sessionVars, trackerVars, sidepanel, settingsVars, storageState, actionEnabled, engineVars,
                 att, modeHandlers, now>>

\* await setMode(currMode) settles (line 314-315)
SaveRestore(s, ok) ==
  /\ sav[s].pc = "restore"
  /\ sav' = [sav EXCEPT ![s] =
       IF ok THEN [@ EXCEPT !.pc = "done", !.restored = TRUE]
       ELSE [@ EXCEPT !.pc = "failed"]]
  /\ recorderMode' = IF ok THEN RestoreMode(sav[s]) ELSE recorderMode
  /\ last' = NoLast
  /\ UNCHANGED <<sessionVars, trackerVars, sidepanel, settingsVars, storageState, actionEnabled, recorderHidden,
                 att, modeHandlers, now>>

\* ------------------------------------------------------ saveStorageState
\* strings are sequences of characters
Dot == <<".">>
Localhost == <<"l">>                       \* stands for localhost
HostExample == <<"e", ".", "c">>           \* stands for example.com
HostBadExample == <<"b", "e", ".", "c">>   \* badexample.com
HostSub == <<"s", ".", "e", ".", "c">>     \* sub.example.com
HostOther == <<"o", ".", "c">>             \* other.com
PathRoot == <<"/">>
PathApp == <<"/", "a", "p">>               \* /app
PathAdmin == <<"/", "a", "d">>             \* /admin

\* the cookies context().storageState() may return
Cookies ==
  [domain : {HostExample, Dot \o HostExample, HostOther, Localhost},
   path : {PathRoot, PathAdmin},
   secure : BOOLEAN]

\* the URLs of the pages and frames, as new URL(s) parses them (line 337)
ParsedURLs ==
  [protocol : {"https:", "http:"},
   hostname : {HostExample, HostBadExample, HostSub, Localhost},
   pathname : {PathRoot, PathApp}]

Origins == {<<>>, <<"origin">>}

\* the sequences over S of length n at most
SeqsUpTo(S, n) == UNION {[1 .. k -> S] : k \in 0 .. n}

\* Array.from(new Set(...)) of line 336 holds every URL once
Distinct(seq) == \A j, k \in 1 .. Len(seq) : j # k => seq[j] # seq[k]

\* String.prototype.startsWith and endsWith
StartsWith(str, prefix) ==
  /\ Len(prefix) <= Len(str)
  /\ SubSeq(str, 1, Len(prefix)) = prefix

EndsWith(str, suffix) ==
  /\ Len(suffix) <= Len(str)
  /\ SubSeq(str, Len(str) - Len(suffix) + 1, Len(str)) = suffix

\* faulty variant: the domain is compared as it is
CookieDomainAsIs(domain) == domain

\* line 342-344
CookieDomain(domain) ==
  IF ~StartsWith(domain, Dot) THEN Dot \o domain ELSE domain

\* the for loop of line 341-353 from the k-th URL on
RECURSIVE CookieLoop(_, _, _)
CookieLoop(c, parsedURLs, k) ==
  IF k > Len(parsedURLs) THEN FALSE
  ELSE LET parsedURL == parsedURLs[k]
       IN IF ~EndsWith(Dot \o parsedURL.hostname, CookieDomain(c.domain))
            THEN CookieLoop(c, parsedURLs, k + 1)
          ELSE IF ~StartsWith(parsedURL.pathname, c.path)
            THEN CookieLoop(c, parsedURLs, k + 1)
          ELSE IF /\ parsedURL.protocol # "https:"
                  /\ parsedURL.hostname # Localhost
                  /\ c.secure
            THEN CookieLoop(c, parsedURLs, k + 1)
          ELSE TRUE

\* the callback of allCookies.filter (line 338-354)
CookieFilter(c, parsedURLs) ==
  IF Len(parsedURLs) = 0 THEN TRUE ELSE CookieLoop(c, parsedURLs, 1)

\* line 338-355: the storage state that is saved
FilterStorageState(allCookies, parsedURLs, origins) ==
  LET Keep(c) == CookieFilter(c, parsedURLs)
  IN [cookies |-> SelectSeq(allCookies, Keep), origins |-> origins]

\* saveStorageState once crxAppPromise has resolved and the storage state
\* has been read (line 331-360): the cookies are filtered and doSave is
\* called with the result, up to the await of getCrxApp (line 274).  The
\* context holds any cookies and origins, the pages any URLs.
SaveStorageState(s) ==
  /\ crxAppPromise # 0
  /\ promise[crxAppPromise] = "resolved"
  /\ sav[s].pc = "idle"
  /\ \A j \in SaveIds : j < s => sav[j].pc # "idle"
  /\ \E allCookies \in SeqsUpTo(Cookies, MaxCookies),
        parsedURLs \in {u \in SeqsUpTo(ParsedURLs, MaxUrls) : Distinct(u)},
        origins \in Origins :
        storageState' =
          [allCookies |-> allCookies, parsedURLs |-> parsedURLs, origins |-> origins,
           filtered |-> TRUE,
           body |-> FilterStorageState(allCookies, parsedURLs, origins)]
  /\ sav' = [sav EXCEPT ![s] =
       [@ EXCEPT !.pc = GetCrxAppEnter.pc, !.awaits = GetCrxAppEnter.awaits,
                 !.modeBefore = recorderMode]]
  /\ last' = NoLast
  /\ UNCHANGED <<sessionVars, trackerVars, sidepanel, settingsVars, actionEnabled,
                 engineVars, att, modeHandlers, now>>

\* ---------------------------------------------------------- specifications
\* oks: the outcomes the awaited calls may have (TRUE: the call succeeds)
SessionStep(oks) ==
  \E p \in PromiseIds, ok \in oks : StartSettles(p, ok)

\* attach up to the end of crxApp.attach: all of attach when it is called
\* without a mode and no awaited call fails
AttachOpenStep(ids, tabs, modes, oks) ==
  \/ \E i \in ids, tab \in tabs, mode \in modes : AttachCall(i, tab, mode)
  \/ \E i \in ids, ok \in oks : AttachStorage(i, ok)
  \/ \E i \in ids : AttachSession(i)
  \/ \E i \in ids, ok \in oks : AttachShow(i, ok)
  \/ \E i \in ids, ok \in oks : AttachAttach(i, ok)

AttachStep(ids, tabs, modes, oks) ==
  \/ AttachOpenStep(ids, tabs, modes, oks)
  \/ \E i \in ids, ok \in oks : AttachSetMode(i, ok)
  \/ \E i \in ids, ok \in oks : AttachNewPage(i, ok)

TabStep(tabs, oks) ==
  \/ \E t \in tabs, ok \in oks : Attached(t, ok)
  \/ \E t \in tabs, ok \in oks : Detached(t, ok)

ModeStep(oks) ==
  \/ \E m \in ModeInputs : ModeChanged(m)
  \/ \E k \in 1 .. MaxHandlers, ok1, ok2 \in oks : ModeChangedResume(k, ok1, ok2)
  \/ \E t \in Tabs, navigated \in BOOLEAN : TabUpdated(t, navigated)

SaveStep(oks) ==
  \/ \E s \in SaveIds : SaveCall(s)
  \/ \E s \in SaveIds, ok \in oks : SaveStorage(s, ok)
  \/ \E s \in SaveIds : SaveSession(s)
  \/ \E s \in SaveIds, ok \in oks : SavePause(s, ok)
  \/ \E s \in SaveIds, ok \in oks : SaveCreate(s, ok)
  \/ \E s \in SaveIds, ok \in oks : SaveAttachTab(s, ok)
  \/ \E s \in SaveIds, ok \in oks : SaveInject(s, ok)
  \/ \E s \in SaveIds, ok \in oks : SaveClick(s, ok)
  \/ \E s \in SaveIds, ok \in oks : SaveDetach(s, ok)
  \/ \E s \in SaveIds, outcome \in {"completed", "cancelled"} : DialogSettles(s, outcome)
  \/ \E s \in SaveIds : HelperTabRemoved(s)
  \/ \E s \in SaveIds : SaveClosed(s)
  \/ \E s \in SaveIds, ok \in oks : SaveRestore(s, ok)

\* the attach flows and the session; any awaited call may fail
Next ==
  \/ SessionStep(BOOLEAN)
  \/ AttachStep(AttachIds, {NoTab, 1}, AttachModes, BOOLEAN)

Spec == Init /\ [][Next]_vars

\* the attach flows and the tab the engine reports attached; no call fails,
\* so the catch block is never entered
NextTabs ==
  \/ SessionStep({TRUE})
  \/ AttachOpenStep(AttachIds, {NoTab, 1}, {NoMode, "inspecting"}, {TRUE})
  \/ \E i \in AttachIds : AttachSetMode(i, TRUE)
  \/ TabStep({1}, {TRUE})

SpecTabs == Init /\ [][NextTabs]_vars

\* the attach flows while the settings change and the recorder is closed
NextSettings ==
  \/ SessionStep({TRUE})
  \/ AttachOpenStep(AttachIds, {1}, AttachModes, {TRUE})
  \/ \E i \in AttachIds : AttachSetMode(i, TRUE)
  \/ RecorderHide
  \/ \E v \in BOOLEAN : SettingsChanged(v)
  \/ \E l \in Languages : LanguageChanged(l)

SpecSettings == Init /\ [][NextSettings]_vars

\* the session is started by attach flows in a process that finds settings
\* persisted, while the selector attribute and the language are changed
NextConfig ==
  \/ SessionStep({TRUE})
  \/ AttachOpenStep(AttachIds, {1}, {NoMode}, {TRUE})
  \/ \E name \in TestIdNames : TestIdChanged(name)
  \/ \E l \in Languages : LanguageChanged(l)

SpecConfig == InitPersisted /\ [][NextConfig]_vars

\* one attach flow that starts the session, and one saveStorageState up to
\* its call of doSave, with any cookies, URLs and origins
NextCookies ==
  \/ SessionStep({TRUE})
  \/ AttachOpenStep({1}, {1}, {NoMode}, {TRUE})
  \/ SaveStorageState(1)

SpecCookies == Init /\ [][NextCookies]_vars

\* one attach flow that starts the session, then the lifecycle events of
\* the tabs; no call fails
NextIndicator ==
  \/ SessionStep({TRUE})
  \/ AttachOpenStep({1}, {1}, {NoMode}, {TRUE})
  \/ TabStep(Tabs, {TRUE})
  \/ ModeStep({TRUE})

SpecIndicator == Init /\ [][NextIndicator]_vars

\* the same with one tab, with time passing and telemetry that may throw
NextMode ==
  \/ SessionStep({TRUE})
  \/ AttachOpenStep({1}, {1}, {NoMode}, {TRUE})
  \/ TabStep({1}, BOOLEAN)
  \/ ModeStep(BOOLEAN)
  \/ Tick

SpecMode == Init /\ [][NextMode]_vars

\* one attach flow that shows the recorder, and the save flows
NextSave ==
  \/ SessionStep({TRUE})
  \/ AttachOpenStep({1}, {1}, {NoMode}, {TRUE})
  \/ SaveStep(BOOLEAN)

SpecSave == Init /\ [][NextSave]_vars

\* ------------------------------------------------------------- properties
Finished(r) == r.pc \in {"done", "failed"}

\* the application handles the getCrxApp callers hold
Handles ==
  {att[i].app : i \in AttachIds} \cup {sav[s].app : s \in SaveIds}

Count(seq, x) == Cardinality({k \in 1 .. Len(seq) : seq[k] = x})

\* C1: however many getCrxApp calls there are, and however they overlap,
\* crx.start() is called at most once and the lifecycle listeners are
\* registered at most once.
C1_StartAtMostOnce ==
  /\ startCalls <= 1
  /\ Cardinality(Resolved) <= 1

\* C2: all callers of getCrxApp whose call resolved hold the same
\* application: no two callers hold different engine instances.
C2_SameHandle == Cardinality(Handles \ {0}) <= 1

\* C3: every attach invocation that disabled the toolbar icon has enabled
\* it again when the invocation has ended, whichever step failed.
C3_ToolbarReenabled ==
  \A i \in AttachIds : (Finished(att[i]) /\ att[i].disabled) => att[i].enabled

C5_AttachedReclickNoOp ==
  [][\A i \in AttachIds :
       (/\ att[i].pc = "idle"
        /\ att'[i].pc # "idle"
        /\ \/ att'[i].tab = NoTab
           \/ (att'[i].tab \in attachedTabIds /\ att'[i].mode = NoMode))
       => /\ att'[i].pc = "done"
          /\ ~att'[i].opened
          /\ ~att'[i].disabled
          /\ att'[i].awaits = 0
          /\ att'[i].show + att'[i].attach + att'[i].setMode + att'[i].newPage = 0
          /\ UNCHANGED <<actionEnabled, sessionVars, engineVars, trackerVars>>]_vars

C5_Witness ==
  \E i, j \in AttachIds :
    /\ att[i].tab = att[j].tab /\ att[i].tab \in attachedTabIds
    /\ att[i].mode = NoMode /\ att[i].pc = "done" /\ att[i].attach = 1
    /\ att[j].mode = NoMode /\ att[j].pc = "done" /\ ~att[j].disabled

\* C6: when a modechanged event has been handled, a change from a mode
\* outside the recording family to one inside it has emitted exactly one
\* "recording_started", and the reverse change exactly one
\* "recording_stopped" with a duration that is not negative.
C6_RecordingEvents ==
  last.op = "modechangedDone" =>
    /\ (~last.recordingBefore /\ last.mode \in recordingModes)
         => Count(last.emitted, "recording_started") = 1
    /\ (last.recordingBefore /\ last.mode \notin recordingModes)
         => (Count(last.emitted, "recording_stopped") = 1 /\ last.duration >= 0)

\* C7: in an attach invocation that passed the guard, the fallback newPage
\* is called once when show, attach or setMode failed and not at all
\* otherwise, and none of the three is called a second time.
C7_SingleFallback ==
  \A i \in AttachIds :
    /\ att[i].newPage =
         (IF att[i].failedStep \in {"show", "attach", "setMode"} THEN 1 ELSE 0)
    /\ att[i].show <= 1 /\ att[i].attach <= 1 /\ att[i].setMode <= 1

C7_Witness ==
  \E i, j \in AttachIds :
    /\ att[i].pc = "done" /\ att[i].failedStep = "attach" /\ att[i].newPage = 1
    /\ att[j].pc = "done" /\ att[j].failedStep = "" /\ att[j].attach = 1
    /\ att[j].newPage = 0


\* C8: changeAction with no mode on a tab that is not in attachedTabIds
\* clears the badge, titles the tab "Record" and leaves currentMode as it
\* was, whatever currentMode is.
C8_UnattachedTabCleared ==
  [][(last'.op = "updated" /\ last'.tab \notin attachedTabIds)
       => /\ indicator'[last'.tab].badge = ""
          /\ indicator'[last'.tab].title = "Record"
          /\ currentMode' = currentMode]_vars

C8_Witness ==
  /\ last.op = "updated"
  /\ last.tab \notin attachedTabIds
  /\ currentMode \in recordingModes
  /\ attachedTabIds # {}
  /\ indicator[last.tab].title = "Record"

\* C9: a modechanged event with mode m gives every tab that is in
\* attachedTabIds the indicator of m (REC / Recording for the recording
\* family, INS / Inspecting for inspecting, no badge and Stopped for none,
\* no badge and Record for standby) and leaves the other tabs as they were.
C9_AttachedTabsShowMode ==
  [][last'.op = "modechanged" =>
       \A t \in Tabs :
         IF t \in attachedTabIds
           THEN /\ last'.mode \in recordingModes
                     => (indicator'[t].badge = "REC" /\ indicator'[t].title = "Recording")
                /\ last'.mode = "inspecting"
                     => (indicator'[t].badge = "INS" /\ indicator'[t].title = "Inspecting")
                /\ last'.mode = "none"
                     => (indicator'[t].badge = "" /\ indicator'[t].title = "Stopped")
                /\ last'.mode = "standby"
                     => (indicator'[t].badge = "" /\ indicator'[t].title = "Record")
           ELSE indicator'[t] = indicator[t]]_vars

C9_Witness ==
  /\ last.op = "modechanged"
  /\ last.mode = "none"
  /\ \E t, u \in Tabs :
       /\ t \in attachedTabIds /\ indicator[t].title = "Stopped"
       /\ u \notin attachedTabIds /\ indicator[u].title = "Record"

\* C10: currentMode is never 'detached': a detached event, and a
\* changeAction whose mode is derived as 'detached', leave it as it was.
C10_DetachedNeverStored ==
  /\ currentMode # "detached"
  /\ [][/\ currentMode' # "detached"
        /\ last'.op = "detached" => currentMode' = currentMode
        /\ (last'.op = "updated" /\ last'.tab \notin attachedTabIds)
             => currentMode' = currentMode]_vars

C10_Witness ==
  /\ last.op = "detached"
  /\ currentMode = "recording"
  /\ attachedTabIds = {}

\* C13: when the synchronous part of the modechanged handler has run for
\* an event with mode m, currentMode is m, whether or not a tab is attached.
C13_ModeStoredOnChange ==
  last.op = "modechanged" => currentMode = last.mode

\* C14: when an attached or a detached handler has run, the tabs that have
\* an attach timestamp are exactly the attached tabs.
C14_TimestampsFollowAttached ==
  last.op \in {"attached", "detached"} => tabAttachTimes = attachedTabIds

\* C18: while an attach invocation is between its chrome.action.disable()
\* and its own chrome.action.enable(), the toolbar icon is disabled.
C18_DisabledWhileAttaching ==
  (\E i \in AttachIds :
     att[i].disabled /\ ~att[i].enabled /\ ~Finished(att[i]))
  => ~actionEnabled

\* C20: when a doSave that runs alone, and that read a recording mode at
\* its start (the recorder was shown before, so that nothing but the save
\* changes the mode), fails at a step after it paused the recorder (tab
\* creation, attach to the helper tab, injection, click or detach), the
\* recorder mode is the mode doSave read at its start.
C20_FailedSaveRestoresMode ==
  [][\A s \in SaveIds :
       (/\ sav[s].pc \in {"create", "attachTab", "inject", "click", "detach"}
        /\ sav'[s].pc = "failed"
        /\ sav[s].currMode \in recordingModes
        /\ \A u \in SaveIds \ {s} : sav[u].pc = "idle")
       => recorderMode' = sav[s].currMode]_vars

\* C19: when the recorder was in a recording mode before the first doSave
\* was called (it was shown before, so that nothing but the saves changes
\* the mode) and every doSave has run to its end, the recorder is in that
\* mode again, however the doSave invocations overlapped.
C19_OverlappingSavesRestoreMode ==
  (/\ \A s \in SaveIds : sav[s].pc = "done"
   /\ sav[1].modeBefore \in recordingModes)
  => recorderMode = sav[1].modeBefore

\* the state the claim calls functional
Functional == <<attachedTabIds, currentMode, indicator, recorderMode, actionEnabled>>

\* C17: a handler that captures telemetry leaves the same functional state
\* whether the capture threw or not: an attached event adds the tab, stores
\* the engine's mode and draws its indicator; a detached event removes the
\* tab and clears its indicator; the part of the modechanged handler that
\* follows the captures changes nothing functional.
C17_TelemetryIndependent ==
  [][/\ last'.op = "attached" =>
          /\ attachedTabIds' = attachedTabIds \cup {last'.tab}
          /\ currentMode' = recorderMode
          /\ indicator' =
               [indicator EXCEPT ![last'.tab] = DrawIndicator(@, recorderMode)]
          /\ UNCHANGED <<recorderMode, actionEnabled>>
     /\ last'.op = "detached" =>
          /\ attachedTabIds' = attachedTabIds \ {last'.tab}
          /\ indicator' =
               [indicator EXCEPT ![last'.tab] = [title |-> "Record", badge |-> ""]]
          /\ UNCHANGED <<currentMode, recorderMode, actionEnabled>>
     /\ last'.op = "modechangedDone" => UNCHANGED Functional]_vars

C17_Witness ==
  /\ last.op = "detached"
  /\ last.emitted = <<>>
  /\ last.tab \notin attachedTabIds
  /\ indicator[last.tab] = [title |-> "Record", badge |-> ""]
  /\ currentMode \in recordingModes

\* C11: an attach invocation that passes the guard while sidepanel is false
\* (the last change notification carried sidepanel = false) does not call
\* chrome.sidePanel.open, and when it shows the recorder it asks for a
\* window of type 'popup'.
C11_PopupAfterSidepanelOff ==
  [][\A i \in AttachIds :
       /\ (att[i].pc = "idle" /\ att'[i].disabled /\ ~sidepanel)
            => ~att'[i].opened
       /\ (att[i].disabled /\ ~att[i].opened /\ att[i].show = 0 /\ att'[i].show = 1)
            => att'[i].window = "popup"]_vars

\* C15: when crx.start() resolves while a selector attribute name is
\* persisted in chrome.storage.sync, playwright.selectors has that name.
C15_PersistedTestIdApplied ==
  [][\A p \in PromiseIds :
       (/\ promise[p] = "pending"
        /\ promise'[p] = "resolved"
        /\ storageSync.testIdAttributeName # NoValue)
       => testIdAttribute' = storageSync.testIdAttributeName]_vars

\* C16: an attach invocation that shows the recorder passes the window type
\* that agrees with whether it called chrome.sidePanel.open, and the
\* language that was set when it was called.
C16_SettingsOfTheCall ==
  \A i \in AttachIds :
    att[i].show >= 1 =>
      /\ (att[i].window = "sidepanel") <=> att[i].opened
      /\ att[i].language = att[i].languageAtCall

\* str ends with suffix: str is some string followed by suffix
IsSuffix(suffix, str) ==
  \E k \in 0 .. Len(str) :
    /\ Len(str) - k = Len(suffix)
    /\ \A j \in 1 .. Len(suffix) : str[k + j] = suffix[j]

\* str starts with prefix
IsPrefix(prefix, str) ==
  /\ Len(prefix) <= Len(str)
  /\ \A j \in 1 .. Len(prefix) : str[j] = prefix[j]

\* the cookie domain with a leading dot
DotDomain(domain) ==
  IF Len(domain) > 0 /\ domain[1] = "." THEN domain ELSE <<".">> \o domain

\* the URL u makes the cookie c relevant
UrlAdmits(u, c) ==
  /\ IsSuffix(DotDomain(c.domain), <<".">> \o u.hostname)
  /\ IsPrefix(c.path, u.pathname)
  /\ ~(c.secure /\ u.protocol # "https:" /\ u.hostname # Localhost)

Retained(c, urls) ==
  urls = <<>> \/ \E k \in 1 .. Len(urls) : UrlAdmits(urls[k], c)

RECURSIVE RetainedOf(_, _)
RetainedOf(cookies, urls) ==
  IF cookies = <<>> THEN <<>>
  ELSE (IF Retained(Head(cookies), urls) THEN <<Head(cookies)>> ELSE <<>>)
         \o RetainedOf(Tail(cookies), urls)

\* C12: the cookies saveStorageState saves are, in their order, the cookies
\* c for which no URL is open or some open URL u has '.' + hostname(u)
\* ending with the dot-normalised domain of c, pathname(u) starting with
\* the path of c, and not (c secure, u neither https nor on localhost);
\* the origins are saved as they were read.
C12_CookieFilter ==
  storageState.filtered =>
    /\ storageState.body.cookies =
         RetainedOf(storageState.allCookies, storageState.parsedURLs)
    /\ storageState.body.origins = storageState.origins

\* https://example.com/app is open: the secure cookie of example.com with
\* path / is kept, the cookie of example.com with path /admin is dropped
C12_Witness ==
  /\ storageState.filtered
  /\ storageState.parsedURLs =
       <<[protocol |-> "https:", hostname |-> HostExample, pathname |-> PathApp]>>
  /\ storageState.allCookies =
       <<[domain |-> HostExample, path |-> PathAdmin, secure |-> FALSE],
         [domain |-> HostExample, path |-> PathRoot, secure |-> TRUE]>>
  /\ storageState.body.cookies =
       <<[domain |-> HostExample, path |-> PathRoot, secure |-> TRUE]>>
  /\ storageState.origins = <<"origin">>

====
